---- MODULE Spec2Model ----
(***************************************************************************)
(* Model of the ActiveMQ Artemis queue scaler                              *)
(* (pkg/scalers/activemq_artemis_scaler.go).                               *)
(*                                                                         *)
(* Text is modelled as a sequence of tokens.  A token is either a          *)
(* delimiter character (":", "/", "@", "[", "]", "+", "-", a digit) or an  *)
(* atom: a run of characters holding no delimiter.  The empty string is    *)
(* the empty sequence, concatenation is \o, and two texts are equal        *)
(* exactly when their token sequences are equal.                           *)
(***************************************************************************)
EXTENDS Integers, Sequences, FiniteSets, TLC

VARIABLES metadata, resolvedEnv, scaler, pc, op, arg, cancelled, contacted,
          result, probeIn, probeOut

vars == <<metadata, resolvedEnv, scaler, pc, op, arg, cancelled, contacted,
          result, probeIn, probeOut>>

(***************************************************************************)
(* Bounds of the model.                                                    *)
(***************************************************************************)
MaxTrailingSlashes == 1
MaxEntries == 2
NumCallers == 2

(***************************************************************************)
(* Program constants.                                                      *)
(***************************************************************************)
artemisMetricName == "queueLength"
artemisDefaultTargetQueueLength == 5
artemisMetricType == "External"

MaxInt32 == 2147483647
MinInt32 == -2147483647 - 1

(***************************************************************************)
(* Errors.  nil is NoErr; an error carries its message, the numeric        *)
(* argument of the message (a status code) and its text argument.          *)
(***************************************************************************)
NoErr == [msg |-> "", code |-> 0, detail |-> <<>>]
Errorf(m, c, d) == [msg |-> m, code |-> c, detail |-> d]

(***************************************************************************)
(* Text helpers.                                                           *)
(***************************************************************************)
Index(s, t) ==
    IF \E i \in 1..Len(s) : s[i] = t
    THEN CHOOSE i \in 1..Len(s) : s[i] = t /\ \A j \in 1..(i - 1) : s[j] # t
    ELSE 0

LastIndex(s, t) ==
    IF \E i \in 1..Len(s) : s[i] = t
    THEN CHOOSE i \in 1..Len(s) : s[i] = t /\ \A j \in (i + 1)..Len(s) : s[j] # t
    ELSE 0

HasPrefix(s, p) == Len(s) >= Len(p) /\ SubSeq(s, 1, Len(p)) = p

From(s, i) == SubSeq(s, i, Len(s))

\* strings.TrimRight(val, "/")
RECURSIVE TrimRight(_, _)
TrimRight(s, c) ==
    IF s # <<>> /\ s[Len(s)] = c THEN TrimRight(SubSeq(s, 1, Len(s) - 1), c) ELSE s

\* strings.ToLower on one atom
ToLower(a) ==
    CASE a = "HTTP" -> "http"
      [] a = "HTTPS" -> "https"
      [] OTHER -> a

Digits == {"0", "1", "2", "3", "4", "5", "6", "7", "8", "9"}

DigitValue(d) ==
    CASE d = "0" -> 0 [] d = "1" -> 1 [] d = "2" -> 2 [] d = "3" -> 3
      [] d = "4" -> 4 [] d = "5" -> 5 [] d = "6" -> 6 [] d = "7" -> 7
      [] d = "8" -> 8 [] d = "9" -> 9

RECURSIVE DecimalValue(_)
DecimalValue(s) ==
    IF s = <<>> THEN 0
    ELSE 10 * DecimalValue(SubSeq(s, 1, Len(s) - 1)) + DigitValue(s[Len(s)])

\* strconv.Atoi: an optional sign, then one or more decimal digits.
Atoi(s) ==
    LET signed == s # <<>> /\ s[1] \in {"+", "-"}
        body == IF signed THEN Tail(s) ELSE s
        ok == body # <<>> /\ \A i \in 1..Len(body) : body[i] \in Digits
        n == DecimalValue(body)
    IN  IF ~ok THEN [val |-> 0, err |-> Errorf("strconv.Atoi: invalid syntax", 0, s)]
        ELSE [val |-> IF signed /\ s[1] = "-" THEN 0 - n ELSE n, err |-> NoErr]

(***************************************************************************)
(* net/url as the scaler uses it: Parse, URL.User.Username, URL.Hostname   *)
(* and URL.Port.                                                           *)
(***************************************************************************)
SchemeAtoms == {"http", "https", "HTTP", "HTTPS", "host"}
PortAtoms == {"8161", "443"}

\* validOptionalPort: "" or ":" followed by digits only
validOptionalPort(p) ==
    \/ p = <<>>
    \/ p = <<":">>
    \/ Len(p) = 2 /\ p[1] = ":" /\ p[2] \in PortAtoms

\* parseHost: the host text is kept, after its port part is validated
parseHost(h) ==
    IF h # <<>> /\ h[1] = "["
    THEN LET i == LastIndex(h, "]") IN
         IF i = 0 THEN [err |-> TRUE, host |-> <<>>]
         ELSE IF ~validOptionalPort(From(h, i + 1)) THEN [err |-> TRUE, host |-> <<>>]
         ELSE [err |-> FALSE, host |-> h]
    ELSE LET i == LastIndex(h, ":") IN
         IF i # 0 /\ ~validOptionalPort(From(h, i)) THEN [err |-> TRUE, host |-> <<>>]
         ELSE [err |-> FALSE, host |-> h]

NoUser == [set |-> FALSE, username |-> <<>>, password |-> <<>>]

\* parseAuthority: [userinfo "@"] host
parseAuthority(a) ==
    LET i == LastIndex(a, "@")
        h == parseHost(From(a, i + 1))
        info == SubSeq(a, 1, i - 1)
        c == Index(info, ":")
    IN  IF h.err THEN [err |-> TRUE, User |-> NoUser, Host |-> <<>>]
        ELSE IF i = 0 THEN [err |-> FALSE, User |-> NoUser, Host |-> h.host]
        ELSE IF c = 0
             THEN [err |-> FALSE, Host |-> h.host,
                   User |-> [set |-> TRUE, username |-> info, password |-> <<>>]]
             ELSE [err |-> FALSE, Host |-> h.host,
                   User |-> [set |-> TRUE, username |-> SubSeq(info, 1, c - 1),
                             password |-> From(info, c + 1)]]

\* url.Parse
Parse(raw) ==
    LET hasScheme == Len(raw) >= 2 /\ raw[1] \in SchemeAtoms /\ raw[2] = ":"
        Scheme == IF hasScheme THEN <<ToLower(raw[1])>> ELSE <<>>
        rest == IF hasScheme THEN From(raw, 3) ELSE raw
        noURL == [err |-> FALSE, Scheme |-> Scheme, User |-> NoUser,
                  Host |-> <<>>, Path |-> <<>>]
    IN  IF raw # <<>> /\ raw[1] = ":"
        THEN [noURL EXCEPT !.err = TRUE]                  \* missing protocol scheme
        ELSE IF ~HasPrefix(rest, <<"/", "/">>)
        THEN IF ~hasScheme /\ Index(rest, ":") # 0
                /\ (Index(rest, "/") = 0 \/ Index(rest, ":") < Index(rest, "/"))
             THEN [noURL EXCEPT !.err = TRUE]             \* colon in first path segment
             ELSE [noURL EXCEPT !.Path = rest]            \* opaque or path only
        ELSE LET after == From(rest, 3)
                 slash == Index(after, "/")
                 authority == IF slash = 0 THEN after ELSE SubSeq(after, 1, slash - 1)
                 path == IF slash = 0 THEN <<>> ELSE From(after, slash)
                 a == parseAuthority(authority)
             IN  IF a.err THEN [noURL EXCEPT !.err = TRUE]
                 ELSE [err |-> FALSE, Scheme |-> Scheme, User |-> a.User,
                       Host |-> a.Host, Path |-> path]

\* URL.User.Username(), guarded by u.User != nil
Username(u) == IF u.User.set THEN u.User.username ELSE <<>>

\* URL.Hostname(): the host without port and without square brackets
Hostname(u) ==
    LET h == u.Host
        b == Index(h, "]")
        c == LastIndex(h, ":")
    IN  IF b # 0 THEN SubSeq(h, IF h[1] = "[" THEN 2 ELSE 1, b - 1)
        ELSE IF c # 0 THEN SubSeq(h, 1, c - 1)
        ELSE h

\* URL.Port(): the text after the host's port colon
Port(u) ==
    LET h == u.Host
        b == Index(h, "]")
        c == LastIndex(h, ":")
    IN  IF b # 0 THEN (IF Len(h) > b /\ h[b + 1] = ":" THEN From(h, b + 2) ELSE <<>>)
        ELSE IF c # 0 THEN From(h, c + 1)
        ELSE <<>>

(***************************************************************************)
(* parseArtemisMetadata                                                    *)
(***************************************************************************)
\* the check for a present key, without the check for an empty value
HasValue_keyOnly(m, k) == k \in DOMAIN m

\* val, ok := m[k]; ok && val != ""
HasValue(m, k) == k \in DOMAIN m /\ m[k] # <<>>

\* if val, ok := metadata[artemisMetricName]; ok { strconv.Atoi(val) ... }
parseQueueLength(md) ==
    IF artemisMetricName \in DOMAIN md
    THEN LET a == Atoi(md[artemisMetricName]) IN
         IF a.err # NoErr
         THEN [val |-> 0, err |-> Errorf("Error parsing ActiveMQ Artemis metadata", 0, a.err.detail)]
         ELSE [val |-> a.val, err |-> NoErr]
    ELSE [val |-> artemisDefaultTargetQueueLength, err |-> NoErr]

\* fmt.Sprintf("%s://%s:%s@%s:%s", u.Scheme, username, jolokiaPW, u.Hostname(), u.Port())
injectPassword(u, username, jolokiaPW) ==
    u.Scheme \o <<":", "/", "/">> \o username \o <<":">> \o jolokiaPW \o <<"@">>
        \o Hostname(u) \o <<":">> \o Port(u)

NoMeta == [targetQueueLength |-> 0, queueName |-> <<>>, jolokiaHost |-> <<>>, trustCA |-> <<>>]

parseArtemisMetadata(md, env) ==
    LET ql == parseQueueLength(md)
        host == TrimRight(md["jolokiaHost"], "/")
        u == Parse(host)
        key == md["passwordKey"]
        username == Username(u)
        m0 == [targetQueueLength |-> ql.val,
               queueName |-> md["queueName"],
               jolokiaHost |-> host,
               trustCA |-> IF HasValue(md, "trustCA") THEN md["trustCA"] ELSE <<>>]
    IN  IF ql.err # NoErr THEN [meta |-> NoMeta, err |-> ql.err]
        ELSE IF ~HasValue(md, "queueName")
        THEN [meta |-> NoMeta, err |-> Errorf("no queueName given", 0, <<>>)]
        ELSE IF ~HasValue(md, "jolokiaHost")
        THEN [meta |-> NoMeta, err |-> Errorf("no jolokiaHost given", 0, <<>>)]
        ELSE IF u.err
        THEN [meta |-> NoMeta, err |-> Errorf("parse", 0, host)]
        ELSE IF ~HasValue(md, "passwordKey") THEN [meta |-> m0, err |-> NoErr]
        ELSE IF ~HasValue(env, key)
        THEN [meta |-> NoMeta,
              err |-> Errorf("password not set for deployment environment key", 0, key)]
        ELSE IF username = <<>>
        THEN [meta |-> NoMeta, err |-> Errorf("no username given for password", 0, <<>>)]
        ELSE [meta |-> [m0 EXCEPT !.jolokiaHost = injectPassword(u, username, env[key])],
              err |-> NoErr]

\* NewActivemqArtemisScaler: the scaler, or the wrapped parse error
NoScaler == [state |-> "none", metadata |-> NoMeta, err |-> NoErr]

NewScaler(md, env) ==
    LET p == parseArtemisMetadata(md, env) IN
    IF p.err # NoErr THEN [state |-> "error", metadata |-> NoMeta, err |-> p.err]
    ELSE [state |-> "ok", metadata |-> p.meta, err |-> NoErr]

\* the descriptor built from the default target instead of the configured one
GetMetricSpecForScaling_default(meta) ==
    <<[MetricName |-> artemisMetricName,
       TargetAverageValue |-> artemisDefaultTargetQueueLength,
       Type |-> artemisMetricType]>>

\* GetMetricSpecForScaling: the one metric descriptor of the scaler
GetMetricSpecForScaling(meta) ==
    <<[MetricName |-> artemisMetricName,
       TargetAverageValue |-> meta.targetQueueLength,
       Type |-> artemisMetricType]>>

(***************************************************************************)
(* The broker's reply to one GET, and encoding/json as the scaler uses it. *)
(* A JSON value is absent, a number, a string (a text) or an object        *)
(* mapping address names to per-address MessageCount numbers.              *)
(***************************************************************************)
EmptyMap == [k \in {} |-> 0]
JAbsent == [t |-> "absent", n |-> 0, s |-> <<>>, m |-> EmptyMap]
JNum(n) == [t |-> "num", n |-> n, s |-> <<>>, m |-> EmptyMap]
JStr(s) == [t |-> "str", n |-> 0, s |-> s, m |-> EmptyMap]
JMap(m) == [t |-> "map", n |-> 0, s |-> <<>>, m |-> m]

\* a body that is not JSON, one whose read fails, or a JSON object
Garbage == [kind |-> "garbage", status |-> JAbsent, error |-> JAbsent, value |-> JAbsent]
Truncated == [kind |-> "readError", status |-> JAbsent, error |-> JAbsent, value |-> JAbsent]
Object(st, er, va) == [kind |-> "object", status |-> st, error |-> er, value |-> va]

GetFailed == [kind |-> "error", StatusCode |-> 0, Body |-> Garbage]
Response(code, body) == [kind |-> "response", StatusCode |-> code, Body |-> body]

\* type MsgCountInfo struct { MsgCount map[string]struct{MessageCount int32}; Status int32; Error string }
MsgCountInfo == [MsgCount |-> EmptyMap, Status |-> 0, Error |-> <<>>]

\* json.Unmarshal(b, &info): absent fields keep their zero value, a field of
\* the wrong JSON type or a body that is not JSON is an error
Unmarshal(b) ==
    LET typed == /\ b.status.t \in {"absent", "num"}
                 /\ b.error.t \in {"absent", "str"}
                 /\ b.value.t \in {"absent", "map"}
    IN  IF b.kind # "object"
        THEN [info |-> MsgCountInfo, err |-> Errorf("invalid character", 0, <<>>)]
        ELSE IF ~typed
        THEN [info |-> MsgCountInfo, err |-> Errorf("json: cannot unmarshal", 0, <<>>)]
        ELSE [info |-> [MsgCount |-> b.value.m, Status |-> b.status.n, Error |-> b.error.s],
              err |-> NoErr]

\* int32 addition: total += v wraps around at 32 bits
Add32(a, b) ==
    IF a > 0 /\ b > 0 /\ a > MaxInt32 - b THEN (a - MaxInt32 - 1) + (b - MaxInt32 - 1)
    ELSE IF a < 0 /\ b < 0 /\ a < MinInt32 - b THEN (a + MaxInt32 + 1) + (b + MaxInt32 + 1)
    ELSE a + b

\* if v.MessageCount > 0 { total += v.MessageCount }
addCount(total, v) == IF v > 0 THEN Add32(total, v) ELSE total

\* for _, v := range info.MsgCount { ... }, starting from total = 0
RECURSIVE sumCounts(_, _)
sumCounts(m, keys) ==
    IF keys = {} THEN 0
    ELSE LET k == CHOOSE x \in keys : TRUE
         IN  addCount(sumCounts(m, keys \ {k}), m[k])

\* roots.AppendCertsFromPEM: true when at least one certificate was added
AppendCertsFromPEM(pem) == \E i \in 1..Len(pem) : pem[i] = "CERT"

\* if len(trustCA) > 0
wantsRoots(trustCA) == Len(trustCA) > 0

\* the client built without looking at the result of AppendCertsFromPEM
newClient_unchecked(trustCA) == NoErr

\* the client of one call: an error when the trust anchor holds no certificate
newClient(trustCA) ==
    IF wantsRoots(trustCA) /\ ~AppendCertsFromPEM(trustCA)
    THEN Errorf("bad Root CA encoding", 0, <<>>)
    ELSE NoErr

\* the status checks with the test for other non-200 codes left out
checkStatus_only403(code) ==
    IF code = 403 THEN Errorf("Artemis query 403 permission error", 0, <<>>)
    ELSE NoErr

\* the status checks made before the body is read
checkStatus(code) ==
    IF code = 403 THEN Errorf("Artemis query 403 permission error", 0, <<>>)
    ELSE IF code # 200 THEN Errorf("Artemis query failure, code", code, <<>>)
    ELSE NoErr

\* the body of a 200 response: read, unmarshal, aggregate
readBody(b) ==
    LET u == Unmarshal(b) IN
    IF b.kind = "readError" THEN [length |-> -1, err |-> Errorf("unexpected EOF", 0, <<>>)]
    ELSE IF u.err # NoErr
    THEN [length |-> -1, err |-> Errorf("Artemis query parsing error", 0, <<u.err.msg>>)]
    ELSE IF u.info.Status = 200
    THEN [length |-> sumCounts(u.info.MsgCount, DOMAIN u.info.MsgCount), err |-> NoErr]
    ELSE IF u.info.Error # <<>>
    THEN [length |-> -1, err |-> Errorf("Artemis query error", 0, u.info.Error)]
    ELSE [length |-> -1, err |-> Errorf("Unknown Artemis error in broker query", 0, <<>>)]

\* GetArtemisQueueLength from client.Get on: r is what the GET produced
afterGet(r) ==
    IF r.kind = "error" THEN [length |-> -1, err |-> Errorf("connection refused", 0, <<>>)]
    ELSE IF checkStatus(r.StatusCode) # NoErr
    THEN [length |-> -1, err |-> checkStatus(r.StatusCode)]
    ELSE readBody(r.Body)

\* GetArtemisQueueLength; requested tells whether client.Get was called
GetArtemisQueueLength(trustCA, r) ==
    IF newClient(trustCA) # NoErr
    THEN [length |-> -1, err |-> newClient(trustCA), requested |-> FALSE]
    ELSE [length |-> afterGet(r).length, err |-> afterGet(r).err, requested |-> TRUE]

\* what a call hands back to its caller
NoOut ==
    [op |-> "", length |-> 0, err |-> NoErr, requested |-> FALSE,
     active |-> FALSE, values |-> <<>>, spec |-> <<>>]

\* artemisScaler.IsActive
IsActive(meta, r) ==
    LET q == GetArtemisQueueLength(meta.trustCA, r) IN
    IF q.err # NoErr
    THEN [NoOut EXCEPT !.op = "IsActive", !.length = q.length, !.err = q.err,
                       !.requested = q.requested]
    ELSE [NoOut EXCEPT !.op = "IsActive", !.length = q.length,
                       !.requested = q.requested, !.active = (q.length > 0)]

\* artemisScaler.GetMetrics
GetMetrics(meta, metricName, r) ==
    LET q == GetArtemisQueueLength(meta.trustCA, r) IN
    IF q.err # NoErr
    THEN [NoOut EXCEPT !.op = "GetMetrics", !.length = q.length, !.err = q.err,
                       !.requested = q.requested]
    ELSE [NoOut EXCEPT !.op = "GetMetrics", !.length = q.length,
                       !.requested = q.requested,
                       !.values = <<[MetricName |-> metricName, Value |-> q.length]>>]

(***************************************************************************)
(* The earlier scalar-shape probe: one GET, no status check, the body      *)
(* unmarshalled into struct { MsgCount int32 `json:"value"` }.             *)
(***************************************************************************)
UnmarshalScalar(b) ==
    IF b.kind # "object" THEN [val |-> 0, err |-> Errorf("invalid character", 0, <<>>)]
    ELSE IF b.value.t \notin {"absent", "num"}
    THEN [val |-> 0, err |-> Errorf("json: cannot unmarshal", 0, <<>>)]
    ELSE [val |-> b.value.n, err |-> NoErr]

GetArtemisQueueLengthScalar(r) ==
    IF r.kind = "error" THEN [length |-> -1, err |-> Errorf("connection refused", 0, <<>>)]
    ELSE IF r.Body.kind = "readError"
    THEN [length |-> -1, err |-> Errorf("unexpected EOF", 0, <<>>)]
    ELSE IF UnmarshalScalar(r.Body).err # NoErr
    THEN [length |-> -1, err |-> UnmarshalScalar(r.Body).err]
    ELSE [length |-> UnmarshalScalar(r.Body).val, err |-> NoErr]

IsActiveScalar(r) ==
    LET q == GetArtemisQueueLengthScalar(r) IN
    IF q.err # NoErr
    THEN [NoOut EXCEPT !.op = "IsActiveScalar", !.length = q.length, !.err = q.err,
                       !.requested = TRUE]
    ELSE [NoOut EXCEPT !.op = "IsActiveScalar", !.length = q.length,
                       !.requested = TRUE, !.active = (q.length > 0)]

(***************************************************************************)
(* Inputs.  A metadata map holds a key only when its value is not Absent.  *)
(***************************************************************************)
Absent == <<"(absent)">>

Present(r) == [k \in {x \in DOMAIN r : r[x] # Absent} |-> r[k]]

RECURSIVE Slashes(_)
Slashes(n) == IF n = 0 THEN <<>> ELSE <<"/">> \o Slashes(n - 1)

\* a well-formed endpoint URL as its author wrote it, part by part
URLInputs ==
    {u \in [scheme : {<<"http">>, <<"https">>},
            user : {<<>>, <<"admin">>},
            pw : {<<>>, <<"old">>},
            host : {<<"host">>, <<"[", "::1", "]">>},
            port : {<<>>, <<"8161">>},
            path : {<<>>, <<"/", "api">>},
            slashes : 0..MaxTrailingSlashes] : u.pw # <<>> => u.user # <<>>}

FormatURL(u) ==
    u.scheme \o <<":", "/", "/">>
        \o (IF u.user = <<>> THEN <<>>
            ELSE u.user \o (IF u.pw = <<>> THEN <<>> ELSE <<":">> \o u.pw) \o <<"@">>)
        \o u.host
        \o (IF u.port = <<>> THEN <<>> ELSE <<":">> \o u.port)
        \o u.path \o Slashes(u.slashes)

OtherHosts ==
    {<<>>, <<"host">>, <<"host", ":", "8161">>,
     <<"http", ":", "/", "/", "admin", "@", "host", ":", "abc">>}

QueueLengthInputs ==
    {Absent, <<>>, <<"5">>, <<"0">>, <<"1", "2">>, <<"-", "3">>, <<"+", "7">>, <<"abc">>}

PasswordKey == <<"JOLOKIA_PASSWORD">>

MetadataInputs ==
    {Present([queueLength |-> a, queueName |-> b, jolokiaHost |-> c,
              trustCA |-> d, passwordKey |-> e]) :
        a \in QueueLengthInputs,
        b \in {Absent, <<>>, <<"myqueue">>},
        c \in {Absent} \cup OtherHosts \cup {FormatURL(u) : u \in URLInputs},
        d \in {Absent, <<>>, <<"CERT">>, <<"TEXT">>},
        e \in {Absent, <<>>, PasswordKey}}

EnvInputs ==
    {Present([JOLOKIA_PASSWORD |-> v]) : v \in {Absent, <<>>, <<"adminpw">>}}

\* resolvedEnv[val] with val the text of the passwordKey entry
EnvOf(e) == [k \in {<<x>> : x \in DOMAIN e} |-> e[k[1]]]

Callers == 1..NumCallers

Idle == [c \in Callers |-> "idle"]
NoOp == [c \in Callers |-> ""]
AllFalse == [c \in Callers |-> FALSE]
NoResult == [c \in Callers |-> NoOut]

(***************************************************************************)
(* SpecResolve: construction of a scaler from every metadata map.          *)
(***************************************************************************)
InitResolve ==
    /\ metadata \in MetadataInputs
    /\ resolvedEnv \in {EnvOf(e) : e \in EnvInputs}
    /\ scaler = NoScaler
    /\ pc = Idle /\ op = NoOp /\ arg = NoOp /\ cancelled = AllFalse /\ contacted = AllFalse
    /\ result = NoResult
    /\ probeIn = GetFailed /\ probeOut = NoOut

NewActivemqArtemisScaler ==
    /\ scaler.state = "none"
    /\ scaler' = NewScaler(metadata, resolvedEnv)
    /\ UNCHANGED <<metadata, resolvedEnv, pc, op, arg, cancelled, contacted, result,
                   probeIn, probeOut>>

NextResolve == NewActivemqArtemisScaler

SpecResolve == InitResolve /\ [][NextResolve]_vars

(***************************************************************************)
(* SpecProbe: one call of a constructed scaler against every reply.        *)
(***************************************************************************)
Counts == {-1, 0, 3, MaxInt32}

CountMaps == UNION {[D -> Counts] : D \in SUBSET (1..MaxEntries)}

Bodies ==
    {Garbage, Truncated}
        \cup {Object(st, er, va) :
                st \in {JAbsent, JNum(200), JNum(500)},
                er \in {JAbsent, JStr(<<"x">>)},
                va \in {JAbsent, JNum(-1), JNum(3)} \cup {JMap(m) : m \in CountMaps}}

Replies == {GetFailed} \cup {Response(c, b) : c \in {200, 403, 500}, b \in Bodies}

TrustAnchors ==
    {Absent, <<>>, <<"CERT">>, <<"TEXT">>, <<"KEY">>, <<"BADCERT">>, <<"TEXT", "CERT">>}

ProbeMetadata ==
    {Present([queueName |-> <<"myqueue">>,
              jolokiaHost |-> <<"http", ":", "/", "/", "admin", "@", "host", ":", "8161">>,
              trustCA |-> d]) : d \in TrustAnchors}

InitProbe ==
    /\ metadata \in ProbeMetadata
    /\ resolvedEnv = EnvOf(Present([JOLOKIA_PASSWORD |-> <<"adminpw">>]))
    /\ scaler = NewScaler(metadata, resolvedEnv)
    /\ pc = Idle /\ op = NoOp /\ arg = NoOp /\ cancelled = AllFalse /\ contacted = AllFalse
    /\ result = NoResult
    /\ probeIn \in Replies /\ probeOut = NoOut

ProbeIsActive ==
    /\ scaler.state = "ok" /\ probeOut = NoOut
    /\ probeOut' = IsActive(scaler.metadata, probeIn)
    /\ UNCHANGED <<metadata, resolvedEnv, scaler, pc, op, arg, cancelled, contacted,
                   result, probeIn>>

ProbeGetMetrics ==
    /\ scaler.state = "ok" /\ probeOut = NoOut
    /\ probeOut' = GetMetrics(scaler.metadata, artemisMetricName, probeIn)
    /\ UNCHANGED <<metadata, resolvedEnv, scaler, pc, op, arg, cancelled, contacted,
                   result, probeIn>>

ProbeIsActiveScalar ==
    /\ scaler.state = "ok" /\ probeOut = NoOut
    /\ probeOut' = IsActiveScalar(probeIn)
    /\ UNCHANGED <<metadata, resolvedEnv, scaler, pc, op, arg, cancelled, contacted,
                   result, probeIn>>

NextProbe == ProbeIsActive \/ ProbeGetMetrics \/ ProbeIsActiveScalar

SpecProbe == InitProbe /\ [][NextProbe]_vars

(***************************************************************************)
(* Spec: the life of one scaler, called by concurrent callers.  A probe    *)
(* blocks in client.Get between its start and the broker's reply; the      *)
(* caller's context may be cancelled meanwhile.                            *)
(***************************************************************************)
LifeMetadata ==
    {Present([queueLength |-> a, queueName |-> <<"myqueue">>,
              jolokiaHost |-> <<"http", ":", "/", "/", "admin", "@", "host", ":", "8161">>,
              trustCA |-> d, passwordKey |-> PasswordKey]) :
        a \in {Absent, <<"7">>, <<"abc">>},
        d \in {Absent, <<"CERT">>, <<"TEXT">>}}

LifeReplies ==
    {GetFailed,
     Response(403, Garbage),
     Response(200, Garbage),
     Response(200, Object(JNum(200), JAbsent, JMap(EmptyMap))),
     Response(200, Object(JNum(200), JAbsent, JMap([k \in {1} |-> 3])))}

MetricNames == {artemisMetricName, "other"}

Init ==
    /\ metadata \in LifeMetadata
    /\ resolvedEnv = EnvOf(Present([JOLOKIA_PASSWORD |-> <<"adminpw">>]))
    /\ scaler = NoScaler
    /\ pc = Idle /\ op = NoOp /\ arg = NoOp /\ cancelled = AllFalse /\ contacted = AllFalse
    /\ result = NoResult
    /\ probeIn = GetFailed /\ probeOut = NoOut

\* a probing call starts: it fails on the trust anchor at once, or issues its GET
StartProbe(c, name, metricName, early) ==
    /\ scaler.state = "ok" /\ pc[c] = "idle"
    /\ op' = [op EXCEPT ![c] = name]
    /\ arg' = [arg EXCEPT ![c] = metricName]
    /\ cancelled' = [cancelled EXCEPT ![c] = FALSE]
    /\ IF newClient(scaler.metadata.trustCA) # NoErr
       THEN /\ pc' = [pc EXCEPT ![c] = "done"]
            /\ result' = [result EXCEPT ![c] = early]
            /\ contacted' = [contacted EXCEPT ![c] = early.requested]
       ELSE /\ pc' = [pc EXCEPT ![c] = "inflight"]
            /\ contacted' = [contacted EXCEPT ![c] = TRUE]
            /\ UNCHANGED result
    /\ UNCHANGED <<metadata, resolvedEnv, scaler, probeIn, probeOut>>

CallIsActive(c) == StartProbe(c, "IsActive", "", IsActive(scaler.metadata, GetFailed))

CallGetMetrics(c) ==
    \E n \in MetricNames :
        StartProbe(c, "GetMetrics", n, GetMetrics(scaler.metadata, n, GetFailed))

\* the caller's context is cancelled while the GET is in flight
Cancel(c) ==
    /\ pc[c] = "inflight" /\ ~cancelled[c]
    /\ cancelled' = [cancelled EXCEPT ![c] = TRUE]
    /\ UNCHANGED <<metadata, resolvedEnv, scaler, pc, op, arg, contacted, result,
                   probeIn, probeOut>>

\* client.Get returns with r and the call runs to its end
HTTPReply(c, r) ==
    /\ pc[c] = "inflight"
    /\ pc' = [pc EXCEPT ![c] = "done"]
    /\ result' = [result EXCEPT ![c] =
                     IF op[c] = "IsActive" THEN IsActive(scaler.metadata, r)
                     ELSE GetMetrics(scaler.metadata, arg[c], r)]
    /\ UNCHANGED <<metadata, resolvedEnv, scaler, op, arg, cancelled, contacted,
                   probeIn, probeOut>>

CallGetMetricSpecForScaling(c) ==
    /\ scaler.state = "ok" /\ pc[c] = "idle"
    /\ pc' = [pc EXCEPT ![c] = "done"]
    /\ op' = [op EXCEPT ![c] = "GetMetricSpecForScaling"]
    /\ result' = [result EXCEPT ![c] =
                     [NoOut EXCEPT !.op = "GetMetricSpecForScaling",
                                   !.spec = GetMetricSpecForScaling(scaler.metadata)]]
    /\ UNCHANGED <<metadata, resolvedEnv, scaler, arg, cancelled, contacted,
                   probeIn, probeOut>>

\* artemisScaler.Close returns nil
Close(c) ==
    /\ scaler.state = "ok" /\ pc[c] = "idle"
    /\ pc' = [pc EXCEPT ![c] = "done"]
    /\ op' = [op EXCEPT ![c] = "Close"]
    /\ result' = [result EXCEPT ![c] = [NoOut EXCEPT !.op = "Close"]]
    /\ UNCHANGED <<metadata, resolvedEnv, scaler, arg, cancelled, contacted,
                   probeIn, probeOut>>

\* the caller takes the result and is ready for its next call
Return(c) ==
    /\ pc[c] = "done"
    /\ pc' = [pc EXCEPT ![c] = "idle"]
    /\ op' = [op EXCEPT ![c] = ""]
    /\ arg' = [arg EXCEPT ![c] = ""]
    /\ result' = [result EXCEPT ![c] = NoOut]
    /\ cancelled' = [cancelled EXCEPT ![c] = FALSE]
    /\ contacted' = [contacted EXCEPT ![c] = FALSE]
    /\ UNCHANGED <<metadata, resolvedEnv, scaler, probeIn, probeOut>>

Next ==
    \/ NewActivemqArtemisScaler
    \/ \E c \in Callers : CallIsActive(c)
    \/ \E c \in Callers : CallGetMetrics(c)
    \/ \E c \in Callers : Cancel(c)
    \/ \E c \in Callers : \E r \in LifeReplies : HTTPReply(c, r)
    \/ \E c \in Callers : CallGetMetricSpecForScaling(c)
    \/ \E c \in Callers : Close(c)
    \/ \E c \in Callers : Return(c)

Spec == Init /\ [][Next]_vars

(***************************************************************************)
(* Properties.                                                             *)
(***************************************************************************)
ProbeOps == {"IsActive", "GetMetrics"}

PermissionDenied == Errorf("Artemis query 403 permission error", 0, <<>>)
UnexpectedStatus(code) == Errorf("Artemis query failure, code", code, <<>>)
BadTrustAnchor == Errorf("bad Root CA encoding", 0, <<>>)
MissingField == {"no queueName given", "no jolokiaHost given"}
InvalidNumber == "Error parsing ActiveMQ Artemis metadata"
TransportFailure == {"connection refused", "unexpected EOF", "context canceled"}

\* the exact sum of the entries of m that are > 0, or TooBig when it is
\* beyond the int32 range
TooBig == 0 - 1

RECURSIVE PositiveSum(_, _)
PositiveSum(m, keys) ==
    IF keys = {} THEN 0
    ELSE LET k == CHOOSE x \in keys : TRUE
             rest == PositiveSum(m, keys \ {k})
         IN  IF m[k] <= 0 THEN rest
             ELSE IF rest = TooBig \/ rest > MaxInt32 - m[k] THEN TooBig
             ELSE rest + m[k]

\* C1: IsActive answers (true, nil) exactly when the broker reports a
\* count > 0, (false, nil) exactly when it reports the count 0, and an error
\* whenever the probe failed.
C1_IsActiveFollowsProbe ==
    probeOut.op = "IsActive" =>
        LET q == GetArtemisQueueLength(scaler.metadata.trustCA, probeIn)
            answeredTrue == probeOut.active /\ probeOut.err = NoErr
            answeredFalse == ~probeOut.active /\ probeOut.err = NoErr
        IN  /\ answeredTrue <=> (q.err = NoErr /\ q.length > 0)
            /\ answeredFalse <=> (q.err = NoErr /\ q.length = 0)
            /\ q.err # NoErr => probeOut.err = q.err

\* a body that is an envelope with status 200 and a count > 0
EnvelopeOKBody(b) ==
    /\ b.kind = "object" /\ b.status = JNum(200) /\ b.value.t = "map"
    /\ \E k \in DOMAIN b.value.m : b.value.m[k] > 0

\* C2: for an HTTP 200 reply whose body is an envelope with status 200, the
\* count returned is the sum of the MessageCount entries that are > 0
\* (nothing is added for an absent or empty mapping).
EnvelopeOK ==
    /\ probeIn.kind = "response" /\ probeIn.StatusCode = 200
    /\ probeIn.Body.kind = "object"
    /\ probeIn.Body.status = JNum(200)
    /\ probeIn.Body.error.t \in {"absent", "str"}
    /\ probeIn.Body.value.t \in {"absent", "map"}

C2_CountIsSumOfPositiveEntries ==
    (probeOut.op \in ProbeOps /\ probeOut.requested /\ EnvelopeOK) =>
        LET m == probeIn.Body.value.m
            sum == PositiveSum(m, DOMAIN m)
        IN  probeOut.err = NoErr /\ sum # TooBig /\ probeOut.length = sum

\* C3: a probe that returns without error returns a count >= 0.
C3_SuccessCountNonNegative ==
    (probeOut.op # "" /\ probeOut.err = NoErr) => probeOut.length >= 0

\* C4: a reply with status 403 yields the permission error and a reply with
\* any other status than 200 yields the unexpected-status error carrying
\* that status, whatever the body holds; neither yields a count.
C4_StatusBeforeBody ==
    (probeOut.op \in ProbeOps /\ probeOut.requested /\ probeIn.kind = "response") =>
        /\ probeIn.StatusCode = 403 => probeOut.err = PermissionDenied
        /\ probeIn.StatusCode \notin {200, 403} =>
              probeOut.err = UnexpectedStatus(probeIn.StatusCode)
        /\ probeIn.StatusCode # 200 =>
              ~probeOut.active /\ probeOut.values = <<>> /\ probeOut.length = -1

C4_Witness ==
    /\ probeOut.op = "GetMetrics" /\ probeOut.requested
    /\ probeIn.kind = "response" /\ probeIn.StatusCode = 403
    /\ EnvelopeOKBody(probeIn.Body)
    /\ probeOut.err = PermissionDenied

\* C5: with a non-empty trust anchor that holds no certificate, every probe
\* fails with the bad-trust-anchor error and no GET is ever issued.
BadAnchorConfigured ==
    /\ scaler.state = "ok"
    /\ scaler.metadata.trustCA # <<>>
    /\ \A i \in 1..Len(scaler.metadata.trustCA) : scaler.metadata.trustCA[i] # "CERT"

C5_BadTrustAnchorNeverContacts ==
    BadAnchorConfigured =>
        \A c \in Callers :
            /\ ~contacted[c]
            /\ pc[c] # "inflight"
            /\ (pc[c] = "done" /\ op[c] \in ProbeOps) =>
                  result[c].err = BadTrustAnchor /\ ~result[c].requested

C5_Witness ==
    /\ BadAnchorConfigured
    /\ \E c \in Callers :
          pc[c] = "done" /\ op[c] = "IsActive" /\ result[c].err = BadTrustAnchor

\* the key k is missing from the metadata map, or holds the empty text
Missing(k) == k \notin DOMAIN metadata \/ metadata[k] = <<>>

NumeralGiven ==
    LET v == metadata["queueLength"]
        body == IF v # <<>> /\ v[1] \in {"+", "-"} THEN Tail(v) ELSE v
    IN  body # <<>> /\ \A i \in 1..Len(body) : body[i] \in Digits

WrittenURLs == {u \in URLInputs : FormatURL(u) = metadata["jolokiaHost"]}

C7_EndpointRebuiltVerbatim ==
    (scaler.state # "none"
       /\ ~Missing("queueName")
       /\ ("queueLength" \in DOMAIN metadata => NumeralGiven)
       /\ ~Missing("passwordKey")
       /\ PasswordKey \in DOMAIN resolvedEnv /\ resolvedEnv[PasswordKey] # <<>>
       /\ "jolokiaHost" \in DOMAIN metadata) =>
        \A u \in WrittenURLs :
            u.user # <<>> =>
                /\ scaler.state = "ok"
                /\ scaler.metadata.jolokiaHost =
                      u.scheme \o <<":", "/", "/">> \o u.user \o <<":">>
                          \o resolvedEnv[PasswordKey] \o <<"@">>
                          \o u.host \o <<":">> \o u.port

\* C8: a constructed scaler has targetQueueLength >= 0 (5 when the key is
\* absent), a negative numeral makes construction fail with the
\* invalid-number error, and the target of GetMetricSpecForScaling is never
\* negative.
C8_TargetNeverNegative ==
    /\ scaler.state = "ok" =>
          /\ scaler.metadata.targetQueueLength >= 0
          /\ GetMetricSpecForScaling(scaler.metadata)[1].TargetAverageValue >= 0
          /\ "queueLength" \notin DOMAIN metadata =>
                scaler.metadata.targetQueueLength = artemisDefaultTargetQueueLength
    /\ (scaler.state # "none" /\ "queueLength" \in DOMAIN metadata
          /\ metadata["queueLength"] # <<>> /\ metadata["queueLength"][1] = "-") =>
          scaler.state = "error" /\ scaler.err.msg = InvalidNumber

\* C9: a call whose context was cancelled while its GET was in flight ends
\* with a transport failure, never with a count.
C9_CancelledCallFails ==
    \A c \in Callers :
        (pc[c] = "done" /\ op[c] \in ProbeOps /\ cancelled[c]) =>
            /\ result[c].err.msg \in TransportFailure
            /\ ~result[c].active /\ result[c].values = <<>>

\* C10: once constructed, the configuration record never changes, whatever
\* the callers do; GetMetricSpecForScaling always returns the descriptor
\* {queueLength, targetQueueLength, External}; and the result of a probe is
\* determined by the configuration and the reply to that call alone.
Descriptor ==
    <<[MetricName |-> "queueLength",
       TargetAverageValue |-> scaler.metadata.targetQueueLength,
       Type |-> "External"]>>

ProbeResults(c, r) ==
    IF op[c] = "IsActive" THEN {IsActive(scaler.metadata, r)}
    ELSE {GetMetrics(scaler.metadata, arg[c], r)}

C10_ConfigurationFrozen ==
    /\ [][scaler.state # "none" => scaler' = scaler]_vars
    /\ [][\A c \in Callers :
            (pc[c] = "inflight" /\ pc'[c] = "done") =>
                \E r \in LifeReplies : result'[c] \in ProbeResults(c, r)]_vars
    /\ [](\A c \in Callers :
            (pc[c] = "done" /\ op[c] = "GetMetricSpecForScaling") =>
                result[c].spec = Descriptor)

C10_Witness ==
    \E c, d \in Callers :
        /\ c # d
        /\ pc[c] = "done" /\ op[c] = "GetMetricSpecForScaling"
        /\ result[c].spec = Descriptor
        /\ scaler.metadata.targetQueueLength = 7
        /\ pc[d] = "done" /\ op[d] = "IsActive" /\ result[d].err # NoErr

====
